---- MODULE Spec2Model ----
(***************************************************************************)
(* Model of the NetSuite AI web application core:                          *)
(*   - app/netsuite/schema_discovery.py : schema cache and discovery       *)
(*   - app/netsuite/sync.py, app/admin/router.py : mirror sync engine      *)
(*                                                                         *)
(* Time is counted in units of the cache TTL (172800 s).                   *)
(* The column metadata of a table is represented by the snapshot of the   *)
(* remote schema it was read from: Snapshot(t) is the remote schema at     *)
(* time t, so metadata read at different times is distinguishable.         *)
(***************************************************************************)
EXTENDS Integers, Sequences, FiniteSets, TLC

\* ------------------------------------------------------------------------
\* Bounds of the model
\* ------------------------------------------------------------------------
MaxTime == 1
MaxTables == 2
MaxRuns == 2
MaxLen == 3

\* ------------------------------------------------------------------------
\* Schema cache: constants and pure helpers
\* ------------------------------------------------------------------------
\* SCHEMA_CACHE_TTL = 172800 seconds, the unit of time of the model
SCHEMA_CACHE_TTL == 1

Conns == {"c1", "c2"}
Names == {"T1", "t1", "T2"}

\* str.lower() on the table names of the model
Lower(n) == IF n = "T1" THEN "t1" ELSE IF n = "T2" THEN "t2" ELSE n

LowerSet(S) == {Lower(n) : n \in S}

EmptyMap == [n \in {} |-> 0]

\* _schema_cache.get(connection_id) is None
NoEntry == [present |-> FALSE, tables |-> EmptyMap, fetched_at |-> 0]

SchemaCache(tables, at) == [present |-> TRUE, tables |-> tables, fetched_at |-> at]

\* dict(existing); dict.update(new)
MergeTables(existing, new) ==
    [n \in (DOMAIN existing) \cup (DOMAIN new) |->
        IF n \in DOMAIN new THEN new[n] ELSE existing[n]]

VARIABLES
    now,        \* time.time(), in units of the TTL
    cache,      \* _schema_cache : connection id -> entry
    call,       \* the cache operation in progress or last completed
    db,         \* mirror store as seen by the request's session
    dbc,        \* mirror store, committed state
    req,        \* the sync request in progress or last completed
    store,      \* one mirror table, row by row, and its database session
    run,        \* the table sync of that table in progress or last completed
    q           \* the mirror query in progress or last completed

cacheVars == <<now, cache, call>>
syncVars == <<db, dbc, req>>
rowVars == <<store, run>>
vars == <<now, cache, call, db, dbc, req, store, run, q>>

\* tables that exist at the remote source of a connection
RemoteTables(c) == IF c = "c1" THEN Names ELSE {"T2"}

\* mutant: the TTL comparison includes the bound
MUT_is_cache_valid_le(entry, t) ==
    IF ~entry.present THEN FALSE
    ELSE (t - entry.fetched_at) <= SCHEMA_CACHE_TTL

_is_cache_valid(entry, t) ==
    IF ~entry.present THEN FALSE
    ELSE (t - entry.fetched_at) < SCHEMA_CACHE_TTL

get_cached_schema(c, t) ==
    IF cache[c].present /\ _is_cache_valid(cache[c], t)
    THEN [present |-> TRUE, tables |-> cache[c].tables]
    ELSE [present |-> FALSE, tables |-> EmptyMap]

Absent == [present |-> FALSE, tables |-> EmptyMap]

NoCall ==
    [op |-> "none", pc |-> "idle", conn |-> "c1", force |-> FALSE, filter |-> {},
     pre |-> [c \in Conns |-> NoEntry], preValid |-> FALSE,
     names |-> {}, tables |-> EmptyMap, nq |-> 0, requeried |-> FALSE,
     raised |-> FALSE, swallowed |-> FALSE, wrote |-> FALSE, at |-> 0,
     outcome |-> "none", result |-> Absent, ticked |-> FALSE,
     after |-> [is |-> FALSE, disc |-> {}]]

CacheInit ==
    /\ now = 0
    /\ cache = [c \in Conns |-> NoEntry]
    /\ call = NoCall

\* mutant: force_refresh is not consulted
MUT_CacheHit_unforced(entry, force, filter, t) ==
    /\ _is_cache_valid(entry, t)
    /\ \/ filter = {}
       \/ LowerSet(filter) \ LowerSet(DOMAIN entry.tables) = {}

\* the cache-hit test of discover_schema, evaluated under the lock
CacheHit(entry, force, filter, t) ==
    /\ ~force
    /\ _is_cache_valid(entry, t)
    /\ \/ filter = {}
       \/ LowerSet(filter) \ LowerSet(DOMAIN entry.tables) = {}

Idle == call.pc \in {"idle", "done"}

Returned(tables) == [present |-> TRUE, tables |-> tables]

\* history: the call that starts now directly follows, with no time elapsed,
\* an unforced filtered discover_schema of the same connection that returned
\* and whose filter is disjoint from the new one; disc is what it discovered
After(c, force, filter) ==
    IF /\ call.op = "discover" /\ call.pc = "done" /\ call.outcome = "returned"
       /\ call.conn = c /\ ~call.force /\ ~force
       /\ call.filter # {} /\ filter # {} /\ call.filter \cap filter = {}
       /\ ~call.ticked
    THEN [is |-> TRUE, disc |-> DOMAIN call.tables]
    ELSE [is |-> FALSE, disc |-> {}]

\* discover_schema, first critical section
DiscoverStart(c, force, filter) ==
    /\ Idle
    /\ LET k == [NoCall EXCEPT !.op = "discover", !.conn = c, !.force = force,
                               !.filter = filter, !.pre = cache,
                               !.preValid = _is_cache_valid(cache[c], now),
                               !.after = After(c, force, filter)]
       IN IF CacheHit(cache[c], force, filter, now)
          THEN call' = [k EXCEPT !.pc = "done", !.outcome = "returned",
                                 !.result = Returned(cache[c].tables)]
          ELSE call' = [k EXCEPT !.pc = "fetch_tables"]
    /\ UNCHANGED <<now, cache>>

\* table names the remote may list for a filter
Listable(c, filter) ==
    IF filter = {} THEN RemoteTables(c)
    ELSE {n \in RemoteTables(c) : Lower(n) \in LowerSet(filter)}

\* a remote query naming `names` is issued: count it, and note whether it
\* names a table of the entry that was valid when the call started
Query(k, names) ==
    [k EXCEPT !.nq = @ + 1,
              !.requeried = @ \/ (k.preValid /\
                                   names \cap DOMAIN k.pre[k.conn].tables # {})]

\* mutant: a failed listing drops the connection's entry
MUT_FetchTables_evict ==
    /\ call.pc = "fetch_tables"
    /\ LET k == Query(call, call.filter)
       IN \/ /\ call' = [k EXCEPT !.pc = "done", !.raised = TRUE, !.outcome = "raised"]
             /\ cache' = [cache EXCEPT ![call.conn] = NoEntry]
          \/ /\ \E listed \in SUBSET Listable(call.conn, call.filter) :
                  IF listed = {}
                  THEN call' = [k EXCEPT !.pc = "done", !.outcome = "returned",
                                         !.result = Returned(EmptyMap)]
                  ELSE call' = [k EXCEPT !.pc = "fetch_columns", !.names = listed]
             /\ cache' = cache
    /\ UNCHANGED now

\* fetch_tables and the early return on an empty listing
FetchTables ==
    /\ call.pc = "fetch_tables"
    /\ LET k == Query(call, call.filter)
       IN \/ call' = [k EXCEPT !.pc = "done", !.raised = TRUE, !.outcome = "raised"]
          \/ \E listed \in SUBSET Listable(call.conn, call.filter) :
               IF listed = {}
               THEN call' = [k EXCEPT !.pc = "done", !.outcome = "returned",
                                      !.result = Returned(EmptyMap)]
               ELSE call' = [k EXCEPT !.pc = "fetch_columns", !.names = listed]
    /\ UNCHANGED <<now, cache>>

\* tables[table_name] = table_info only when table_info.columns is non-empty
BuildTables(names, cols) ==
    [n \in {m \in names : cols[m] > 0} |-> cols[n]]

\* the remote schema as of time t (0 stands for "no column")
Snapshot(t) == t + 1

\* the column rows the remote returns at time t: a snapshot for the tables in
\* `has`, no row for the others
Columns(names, has, t) == [n \in names |-> IF n \in has THEN Snapshot(t) ELSE 0]

\* fetch_columns_for_tables, batched query
FetchColumnsBatch ==
    /\ call.pc = "fetch_columns"
    /\ LET k == Query(call, call.names)
       IN \/ call' = [k EXCEPT !.pc = "fallback", !.raised = TRUE]
          \/ call' = [k EXCEPT !.pc = "done", !.raised = TRUE, !.outcome = "raised",
                                !.names = {}]
          \/ \E has \in SUBSET call.names :
               call' = [k EXCEPT !.pc = "write", !.names = {},
                                 !.tables = BuildTables(call.names, Columns(call.names, has, now))]
    /\ UNCHANGED <<now, cache>>

\* fetch_columns_for_tables, one query per table after the batch failed
FetchColumnsFallback ==
    /\ call.pc = "fallback"
    /\ \E failed \in SUBSET call.names :
         \E has \in SUBSET (call.names \ failed) :
           call' = [Query(call, call.names) EXCEPT
                       !.pc = "write", !.names = {},
                       !.nq = call.nq + Cardinality(call.names),
                       !.swallowed = (failed # {}),
                       !.tables = BuildTables(call.names, Columns(call.names, has, now))]
    /\ UNCHANGED <<now, cache>>

\* mutant: a forced refresh merges as well
MUT_NewEntry_merge(existing, force, tables, t) ==
    IF existing.present
    THEN SchemaCache(MergeTables(existing.tables, tables), t)
    ELSE SchemaCache(tables, t)

\* the entry discover_schema stores
NewEntry(existing, force, tables, t) ==
    IF existing.present /\ ~force
    THEN SchemaCache(MergeTables(existing.tables, tables), t)
    ELSE SchemaCache(tables, t)

\* mutant: the entry is written even when nothing was discovered
MUT_WriteCache_always ==
    /\ call.pc = "write"
    /\ cache' = [cache EXCEPT ![call.conn] =
                    NewEntry(cache[call.conn], call.force, call.tables, now)]
    /\ call' = [call EXCEPT !.pc = "final", !.wrote = TRUE, !.at = now]
    /\ UNCHANGED now

\* discover_schema, second critical section
WriteCache ==
    /\ call.pc = "write"
    /\ IF call.tables # EmptyMap
       THEN /\ cache' = [cache EXCEPT ![call.conn] =
                            NewEntry(cache[call.conn], call.force, call.tables, now)]
            /\ call' = [call EXCEPT !.pc = "final", !.wrote = TRUE, !.at = now]
       ELSE /\ cache' = cache
            /\ call' = [call EXCEPT !.pc = "final"]
    /\ UNCHANGED now

\* discover_schema, third critical section
FinalRead ==
    /\ call.pc = "final"
    /\ call' = [call EXCEPT !.pc = "done", !.outcome = "returned",
                  !.result = Returned(IF cache[call.conn].present
                                      THEN cache[call.conn].tables ELSE call.tables)]
    /\ UNCHANGED <<now, cache>>

GetCached(c) ==
    /\ Idle
    /\ call' = [NoCall EXCEPT !.op = "get", !.pc = "done", !.conn = c,
                              !.pre = cache, !.at = now,
                              !.outcome = "returned",
                              !.result = get_cached_schema(c, now)]
    /\ UNCHANGED <<now, cache>>

\* clear_schema_cache(connection_id)
ClearCache(c) ==
    /\ Idle
    /\ cache' = [cache EXCEPT ![c] = NoEntry]
    /\ call' = [NoCall EXCEPT !.op = "clear", !.pc = "done", !.conn = c,
                              !.outcome = "returned"]
    /\ UNCHANGED now

\* clear_schema_cache(None)
ClearAll ==
    /\ Idle
    /\ cache' = [c \in Conns |-> NoEntry]
    /\ call' = [NoCall EXCEPT !.op = "clear", !.pc = "done", !.outcome = "returned"]
    /\ UNCHANGED now

\* time passes between calls and while a call waits for the remote source
Tick ==
    /\ now < MaxTime
    /\ call.pc \in {"idle", "done", "fetch_tables"}
    /\ now' = now + 1
    /\ call' = IF call.pc = "done" THEN [call EXCEPT !.ticked = TRUE] ELSE call
    /\ UNCHANGED cache

CacheNext ==
    \/ \E c \in Conns, force \in BOOLEAN :
          \E filter \in SUBSET RemoteTables(c) : DiscoverStart(c, force, filter)
    \/ FetchTables
    \/ FetchColumnsBatch
    \/ FetchColumnsFallback
    \/ WriteCache
    \/ FinalRead
    \/ \E c \in Conns : GetCached(c)
    \/ \E c \in Conns : ClearCache(c)
    \/ ClearAll
    \/ Tick

\* ------------------------------------------------------------------------
\* Two concurrent discover_schema calls on connection c1, both unforced.
\* Each `with _cache_lock` block is one step; the remote queries run
\* between the blocks, outside the lock.  call holds the entry the
\* connection had before the calls and the position of each thread.
\* ------------------------------------------------------------------------
Procs == {1, 2}

RaceConn == "c1"

RaceIdle ==
    [pc |-> "idle", filter |-> {}, missed |-> FALSE,
     names |-> {}, tables |-> EmptyMap, outcome |-> "none"]

\* entries an earlier discover_schema at time 0 can have left behind
PriorEntries ==
    {NoEntry} \cup {SchemaCache([n \in S |-> Snapshot(0)], 0) :
                       S \in (SUBSET RemoteTables(RaceConn)) \ {{}}}

RaceInit ==
    /\ now = 0
    /\ \E prior \in PriorEntries :
         /\ cache = [c \in Conns |-> IF c = RaceConn THEN prior ELSE NoEntry]
         /\ call = [prior |-> prior, procs |-> [p \in Procs |-> RaceIdle]]

Proc(p) == call.procs[p]

SetProc(p, k) == call' = [call EXCEPT !.procs[p] = k]

\* first critical section of thread p
RaceStart(p, filter) ==
    /\ Proc(p).pc = "idle"
    /\ LET k == [Proc(p) EXCEPT !.filter = filter]
       IN IF CacheHit(cache[RaceConn], FALSE, filter, now)
          THEN SetProc(p, [k EXCEPT !.pc = "done", !.outcome = "returned"])
          ELSE SetProc(p, [k EXCEPT !.pc = "fetch_tables", !.missed = TRUE])
    /\ UNCHANGED <<now, cache>>

\* fetch_tables of thread p and the early return on an empty listing
RaceFetchTables(p) ==
    /\ Proc(p).pc = "fetch_tables"
    /\ \/ SetProc(p, [Proc(p) EXCEPT !.pc = "done", !.outcome = "raised"])
       \/ \E listed \in SUBSET Listable(RaceConn, Proc(p).filter) :
            IF listed = {}
            THEN SetProc(p, [Proc(p) EXCEPT !.pc = "done", !.outcome = "returned"])
            ELSE SetProc(p, [Proc(p) EXCEPT !.pc = "fetch_columns", !.names = listed])
    /\ UNCHANGED <<now, cache>>

\* fetch_columns_for_tables of thread p, batched query
RaceFetchColumnsBatch(p) ==
    /\ Proc(p).pc = "fetch_columns"
    /\ \/ SetProc(p, [Proc(p) EXCEPT !.pc = "fallback"])
       \/ SetProc(p, [Proc(p) EXCEPT !.pc = "done", !.outcome = "raised", !.names = {}])
       \/ \E has \in SUBSET Proc(p).names :
            SetProc(p, [Proc(p) EXCEPT
                          !.pc = "write", !.names = {},
                          !.tables = BuildTables(Proc(p).names,
                                                 Columns(Proc(p).names, has, now))])
    /\ UNCHANGED <<now, cache>>

\* fetch_columns_for_tables of thread p, one query per table
RaceFetchColumnsFallback(p) ==
    /\ Proc(p).pc = "fallback"
    /\ \E has \in SUBSET Proc(p).names :
         SetProc(p, [Proc(p) EXCEPT
                       !.pc = "write", !.names = {},
                       !.tables = BuildTables(Proc(p).names,
                                              Columns(Proc(p).names, has, now))])
    /\ UNCHANGED <<now, cache>>

\* mutant: the entry is replaced by what the thread discovered
MUT_RaceWrite_replace(p) ==
    /\ Proc(p).pc = "write"
    /\ IF Proc(p).tables # EmptyMap
       THEN cache' = [cache EXCEPT ![RaceConn] = SchemaCache(Proc(p).tables, now)]
       ELSE cache' = cache
    /\ SetProc(p, [Proc(p) EXCEPT !.pc = "final"])
    /\ UNCHANGED now

\* second critical section of thread p
RaceWrite(p) ==
    /\ Proc(p).pc = "write"
    /\ IF Proc(p).tables # EmptyMap
       THEN cache' = [cache EXCEPT ![RaceConn] =
                         NewEntry(cache[RaceConn], FALSE, Proc(p).tables, now)]
       ELSE cache' = cache
    /\ SetProc(p, [Proc(p) EXCEPT !.pc = "final"])
    /\ UNCHANGED now

\* third critical section of thread p: the entry is read and returned
RaceFinal(p) ==
    /\ Proc(p).pc = "final"
    /\ SetProc(p, [Proc(p) EXCEPT !.pc = "done", !.outcome = "returned"])
    /\ UNCHANGED <<now, cache>>

RaceStep(p) ==
    \/ \E filter \in SUBSET RemoteTables(RaceConn) : RaceStart(p, filter)
    \/ RaceFetchTables(p)
    \/ RaceFetchColumnsBatch(p)
    \/ RaceFetchColumnsFallback(p)
    \/ RaceWrite(p)
    \/ RaceFinal(p)

RaceNext == \E p \in Procs : RaceStep(p)

\* ------------------------------------------------------------------------
\* Mirror sync engine
\* ------------------------------------------------------------------------
\* mutant: the lines are synced before their transactions
MUT_SyncOrder == <<"account", "employee", "customer", "transactionline", "transaction">>

\* the order of the calls in sync_all
SyncOrder == <<"account", "employee", "customer", "transaction", "transactionline">>

MirrorTables == {"account", "employee", "customer", "transaction", "transactionline"}

\* tables the targeted branch of sync_netsuite_data dispatches on
RouterTables == {"account", "transaction", "transactionline"}

\* table syncs that call db.commit() themselves
SelfCommitting == {"account", "employee", "transaction"}

\* table names a request may carry
RequestNames == {"account", "transaction", "transactionline", "bogus"}

Ids == {1, 2}

EmptyDb == [mirror |-> [t \in MirrorTables |-> {}], log |-> <<>>]

\* history: the last failed mirror write of the request, the rows the same
\* table sync had written before it, and the index of its log entry
NoWriteFailure == [is |-> FALSE, table |-> "none", rows |-> {}, log |-> 0]

WriteFailure(r) ==
    [is |-> TRUE, table |-> r.tables[r.i],
     rows |-> r.records \ r.pending, log |-> Len(db.log)]

NoReq ==
    [pc |-> "idle", mode |-> "none", tables |-> <<>>, i |-> 0, base |-> 0,
     records |-> {}, pending |-> {}, ids |-> {},
     nq |-> 0, nw |-> 0, nlog |-> 0, results |-> EmptyMap, status |-> "none",
     wfail |-> NoWriteFailure]

\* the store after one earlier successful sync of the account table
SeededDb ==
    [mirror |-> [t \in MirrorTables |-> IF t = "account" THEN {1} ELSE {}],
     log |-> <<[table |-> "account", status |-> "success", completed |-> TRUE,
                rows |-> 1, err |-> FALSE]>>]

\* one sync request is followed from a store that is empty or seeded
SyncInit ==
    /\ db \in {EmptyDb, SeededDb}
    /\ dbc = db
    /\ req = NoReq

Min(S) == CHOOSE x \in S : \A y \in S : x <= y

\* mutant: the entry is created with a terminal status
MUT_RunningLog_success(t) ==
    [table |-> t, status |-> "success", completed |-> FALSE, rows |-> -1, err |-> FALSE]

\* NSSyncLog row as created by _create_sync_log
\* (rows = -1: rows_synced is None; err: error_message is set)
RunningLog(t) ==
    [table |-> t, status |-> "running", completed |-> FALSE, rows |-> -1, err |-> FALSE]

\* _complete_sync_log
_complete_sync_log(entry, status, rows, err) ==
    [entry EXCEPT !.status = status, !.completed = TRUE, !.rows = rows, !.err = err]

CurTable == req.tables[req.i]
CurLog == Len(db.log)

SetLog(d, k, e) == [d EXCEPT !.log = [@ EXCEPT ![k] = e]]

\* results[table] = ...: a later result of the same table replaces the earlier
SetResult(results, t, res) ==
    [n \in (DOMAIN results) \cup {t} |-> IF n = t THEN res ELSE results[n]]

\* a table sync returns: record its result and go on with the next table
TableDone(r, status, rows) ==
    [r EXCEPT !.pc = "dispatch", !.i = @ + 1, !.records = {}, !.pending = {},
              !.ids = {},
              !.results = SetResult(@, r.tables[r.i],
                                    [status |-> status, rows |-> rows])]

\* sync_netsuite_data is called
StartRequest(mode, tables) ==
    /\ req.pc = "idle"
    /\ req' = [NoReq EXCEPT !.pc = "dispatch", !.mode = mode,
                            !.tables = IF mode = "all" THEN SyncOrder ELSE tables,
                            !.i = 1, !.base = Len(db.log)]
    /\ UNCHANGED <<db, dbc>>

\* the targeted loop meets a name it does not know: return without commit,
\* the session is closed and its uncommitted work is discarded
RejectUnknown ==
    /\ req.pc = "dispatch"
    /\ req.i <= Len(req.tables)
    /\ req.mode = "targeted"
    /\ CurTable \notin RouterTables
    /\ req' = [req EXCEPT !.pc = "ended", !.status = "error"]
    /\ db' = dbc
    /\ UNCHANGED dbc

\* the next table sync starts: _create_sync_log
OpenLog ==
    /\ req.pc = "dispatch"
    /\ req.i <= Len(req.tables)
    /\ req.mode = "targeted" => CurTable \in RouterTables
    /\ db' = [db EXCEPT !.log = Append(@, RunningLog(CurTable))]
    /\ req' = [req EXCEPT !.pc = "extract", !.nlog = @ + 1]
    /\ UNCHANGED dbc

\* mutant: the handler also discards the mirror rows of the session
MUT_FailTable_discard(r) ==
    /\ db' = SetLog([db EXCEPT !.mirror = EmptyDb.mirror], CurLog,
                    _complete_sync_log(db.log[CurLog], "failed", -1, TRUE))
    /\ req' = TableDone(r, "error", 0)
    /\ UNCHANGED dbc

\* except JdbcError / except Exception: the log entry is marked failed
FailTable(r) ==
    /\ db' = SetLog(db, CurLog, _complete_sync_log(db.log[CurLog], "failed", -1, TRUE))
    /\ req' = TableDone(r, "error", 0)
    /\ UNCHANGED dbc

\* the result came back empty: success with rows_synced = 0
EmptyTable(r) ==
    /\ db' = SetLog(db, CurLog, _complete_sync_log(db.log[CurLog], "success", 0, FALSE))
    /\ req' = TableDone(r, "success", 0)
    /\ UNCHANGED dbc

\* run_query of sync_accounts, sync_employees, sync_customers, sync_transactions
Extract ==
    /\ req.pc = "extract"
    /\ CurTable # "transactionline"
    /\ LET r == [req EXCEPT !.nq = @ + 1]
       IN \/ FailTable(r)
          \/ EmptyTable(r)
          \/ \E rows \in (SUBSET Ids) \ {{}} :
               /\ req' = [r EXCEPT !.pc = "write", !.records = rows, !.pending = rows]
               /\ UNCHANGED <<db, dbc>>

\* sync_transaction_lines: the ids of the transactions in the window
ExtractTransIds ==
    /\ req.pc = "extract"
    /\ CurTable = "transactionline"
    /\ LET r == [req EXCEPT !.nq = @ + 1]
       IN \/ FailTable(r)
          \/ EmptyTable(r)
          \/ \E tids \in (SUBSET Ids) \ {{}} :
               /\ req' = [r EXCEPT !.pc = "lines", !.ids = tids]
               /\ UNCHANGED <<db, dbc>>

\* sync_transaction_lines: one query per batch of transaction ids
ExtractLines ==
    /\ req.pc = "lines"
    /\ LET r == [req EXCEPT !.nq = @ + 1]
           batch == {Min(req.ids)}
           rest == req.ids \ batch
       IN \/ FailTable(r)
          \/ \E rows \in SUBSET Ids :
               LET all == req.records \cup rows
               IN IF rest # {}
                  THEN /\ req' = [r EXCEPT !.ids = rest, !.records = all]
                       /\ UNCHANGED <<db, dbc>>
                  ELSE IF all = {}
                  THEN EmptyTable(r)
                  ELSE /\ req' = [r EXCEPT !.pc = "write", !.ids = {},
                                           !.records = all, !.pending = all]
                       /\ UNCHANGED <<db, dbc>>

\* one batch of the upsert loop: db.execute(stmt)
WriteChunk ==
    /\ req.pc = "write"
    /\ req.pending # {}
    /\ LET batch == {Min(req.pending)}
           r == [req EXCEPT !.nw = @ + 1]
           f == [r EXCEPT !.wfail = WriteFailure(req)]
       IN \/ /\ db' = [db EXCEPT !.mirror[CurTable] = @ \cup batch]
             /\ req' = [r EXCEPT !.pending = @ \ batch]
             /\ UNCHANGED dbc
          \* the write fails and the handler records the failure
          \/ FailTable(f)
          \* the write fails, the handler's flush fails too, and the
          \* exception reaches sync_netsuite_data: db.rollback()
          \/ /\ req' = [f EXCEPT !.pc = "ended", !.status = "error",
                                  !.records = {}, !.pending = {}]
             /\ db' = dbc
             /\ UNCHANGED dbc

\* all batches are written: db.commit() where the table sync has one, then
\* _complete_sync_log(success)
CompleteTable ==
    /\ req.pc = "write"
    /\ req.pending = {}
    /\ LET n == Cardinality(req.records)
           done == SetLog(db, CurLog, _complete_sync_log(db.log[CurLog], "success", n, FALSE))
       IN /\ db' = done
          /\ dbc' = IF CurTable \in SelfCommitting THEN db ELSE dbc
          /\ req' = TableDone(req, "success", n)

\* mutant: one successful table is enough
MUT_OverallStatus_any(results) ==
    IF \E t \in DOMAIN results : results[t].status = "success"
    THEN "success" ELSE "partial"

\* all(r.get("status") == "success" for r in results.values())
OverallStatus(results) ==
    IF \A t \in DOMAIN results : results[t].status = "success"
    THEN "success" ELSE "partial"

\* the loop is over: db.commit() and the response
FinishRequest ==
    /\ req.pc = "dispatch"
    /\ req.i > Len(req.tables)
    /\ dbc' = db
    /\ req' = [req EXCEPT !.pc = "ended", !.status = OverallStatus(req.results)]
    /\ UNCHANGED db

SyncNext ==
    \/ StartRequest("all", <<>>)
    \/ \E n \in 1..MaxTables : \E tables \in [1..n -> RequestNames] :
          StartRequest("targeted", tables)
    \/ RejectUnknown
    \/ OpenLog
    \/ Extract
    \/ ExtractTransIds
    \/ ExtractLines
    \/ WriteChunk
    \/ CompleteTable
    \/ FinishRequest

\* ------------------------------------------------------------------------
\* Mirror tables row by row: projection, upsert, constraints, now()
\* ------------------------------------------------------------------------
RowTables == {"account", "transactionline"}

\* two of the data columns of each mirror table (pg_columns)
DataCols(t) == IF t = "account" THEN {"name", "type"} ELSE {"transaction", "memo"}

\* the known columns a remote result may carry besides id; the lines are
\* selected by their transaction column, which is therefore always there
Projections(t) ==
    IF t = "account" THEN SUBSET DataCols(t)
    ELSE {P \in SUBSET DataCols(t) : "transaction" \in P}

Vals == {1, 2}
NULL == 0

\* remote rows: id -> values of the projected columns, ids distinct
RemoteData(P) == UNION {[S -> [P -> Vals]] : S \in SUBSET Ids}

NoRow(t) == [present |-> FALSE, cols |-> [c \in DataCols(t) |-> NULL], synced_at |-> 0]

NoRows(t) == [id \in Ids |-> NoRow(t)]

\* references the mirror schema enforces: <<table, column, referenced table>>
ForeignKeys == {<<"transactionline", "transaction", "transaction">>}

\* mutant: the upsert overwrites every column, absent ones with NULL
MUT_UpsertRow_nulls(old, t, P, payload, at) ==
    [present |-> TRUE,
     cols |-> [c \in DataCols(t) |-> IF c \in P THEN payload[c] ELSE NULL],
     synced_at |-> at]

\* INSERT ... ON CONFLICT (id) DO UPDATE SET <projected columns>, synced_at = now()
UpsertRow(old, t, P, payload, at) ==
    [present |-> TRUE,
     cols |-> [c \in DataCols(t) |->
                 IF c \in P THEN payload[c]
                 ELSE IF old.present THEN old.cols[c] ELSE NULL],
     synced_at |-> at]

\* mutant: the table is replaced by the remote rows
MUT_UpsertAll_replace(rows, t, P, data, at) ==
    [id \in Ids |-> IF id \in DOMAIN data
                    THEN UpsertRow(rows[id], t, P, data[id], at)
                    ELSE NoRow(t)]

\* the upsert loop over all batches
UpsertAll(rows, t, P, data, at) ==
    [id \in Ids |-> IF id \in DOMAIN data
                    THEN UpsertRow(rows[id], t, P, data[id], at)
                    ELSE rows[id]]

\* a record of the payload refers to a transaction the mirror does not hold
Dangling(t, P, data, trans) ==
    \E fk \in ForeignKeys :
        /\ fk[1] = t
        /\ fk[2] \in P
        /\ \E id \in DOMAIN data : data[id][fk[2]] \notin trans

NoPrev == [any |-> FALSE, ok |-> FALSE, P |-> {}, data |-> EmptyMap]

NoRun ==
    [pc |-> "idle", n |-> 0, P |-> {}, data |-> EmptyMap, status |-> "none",
     rows_synced |-> 0, aborted |-> FALSE, newreq |-> FALSE,
     pre |-> EmptyMap, prev |-> NoPrev]

\* an empty table; for the lines, any set of mirrored transactions
RowInit ==
    /\ \E t \in RowTables :
         \E trans \in (IF t = "account" THEN {{}} ELSE SUBSET Ids) :
            store = [table |-> t, rows |-> NoRows(t), committed |-> NoRows(t),
                     trans |-> trans, clock |-> 0, txn |-> 0]
    /\ run = NoRun

\* now() of PostgreSQL: the start time of the current transaction
Now == store.txn

\* a table sync is called and its extraction returns `data` with the known
\* columns P; in a new request the session starts a new transaction, the
\* previous request having committed
StartRun(newreq, P, data) ==
    /\ run.pc \in {"idle", "done"}
    /\ run.n < MaxRuns
    /\ (run.n = 0 \/ run.aborted) => newreq
    /\ run' = [NoRun EXCEPT !.pc = "extracted", !.n = run.n + 1, !.P = P,
                            !.data = data, !.newreq = newreq, !.pre = store.rows,
                            !.prev = [any |-> run.n > 0, ok |-> run.status = "success",
                                      P |-> run.P, data |-> run.data]]
    /\ store' = IF newreq
                THEN [store EXCEPT !.committed = store.rows,
                                   !.clock = @ + 1, !.txn = store.clock + 1]
                ELSE store

\* if not rows: the log entry is completed with rows_synced = 0
EmptyRun ==
    /\ run.pc = "extracted"
    /\ run.data = EmptyMap
    /\ run' = [run EXCEPT !.pc = "done", !.status = "success", !.rows_synced = 0]
    /\ UNCHANGED store

\* the upsert statements; a violated reference makes the statement fail, the
\* transaction is then aborted, the handler's flush fails as well and
\* sync_netsuite_data rolls the session back
Upsert ==
    /\ run.pc = "extracted"
    /\ run.data # EmptyMap
    /\ IF Dangling(store.table, run.P, run.data, store.trans)
       THEN /\ store' = [store EXCEPT !.rows = store.committed]
            /\ run' = [run EXCEPT !.pc = "done", !.status = "error", !.aborted = TRUE]
       ELSE /\ store' = [store EXCEPT !.rows =
                            UpsertAll(store.rows, store.table, run.P, run.data, Now)]
            /\ run' = [run EXCEPT !.pc = "written"]

\* mutant: the table sync does not commit, its transaction goes on
MUT_CompleteRun_nocommit ==
    /\ run.pc = "written"
    /\ run' = [run EXCEPT !.pc = "done", !.status = "success",
                          !.rows_synced = Cardinality(DOMAIN run.data)]
    /\ UNCHANGED store

\* db.commit() where the table sync has one (the completion of the log entry
\* then opens the next transaction), and the success result
CompleteRun ==
    /\ run.pc = "written"
    /\ run' = [run EXCEPT !.pc = "done", !.status = "success",
                          !.rows_synced = Cardinality(DOMAIN run.data)]
    /\ store' = IF store.table \in SelfCommitting
                THEN [store EXCEPT !.committed = store.rows,
                                   !.clock = @ + 1, !.txn = store.clock + 1]
                ELSE store

RowNext ==
    \/ \E newreq \in BOOLEAN : \E P \in Projections(store.table) :
          \E data \in RemoteData(P) : StartRun(newreq, P, data)
    \/ EmptyRun
    \/ Upsert
    \/ CompleteRun

\* ------------------------------------------------------------------------
\* From the extracted rows to the upsert statements: the records of one
\* table sync in extraction order, ids possibly repeated
\* ------------------------------------------------------------------------
\* the table syncs that rebuild their records through seen_ids
Deduplicating == {"transactionline", "employee", "customer"}

\* records per upsert statement (2000 in the code, scaled to the model)
batch_size == 2

Records == [id : Ids, v : Vals]

RecordIds(recs) == {recs[k].id : k \in 1..Len(recs)}

\* the position of the last record of an id
LastOf(recs, id) ==
    CHOOSE k \in 1..Len(recs) :
        recs[k].id = id /\ \A j \in (k + 1)..Len(recs) : recs[j].id # id

\* seen_ids[record["id"]] = record; list(seen_ids.values()): one record per
\* id, in the order the ids were first seen, with the payload seen last
RECURSIVE SeenIds(_, _, _)
SeenIds(recs, k, out) ==
    IF k > Len(recs) THEN out
    ELSE IF recs[k].id \in RecordIds(out) THEN SeenIds(recs, k + 1, out)
    ELSE SeenIds(recs, k + 1, Append(out, recs[LastOf(recs, recs[k].id)]))

\* the records a table sync passes on to its upsert loop
Deduplicate(t, recs) ==
    IF t \in Deduplicating THEN SeenIds(recs, 1, <<>>) ELSE recs

\* ON CONFLICT DO UPDATE cannot affect a row a second time in one statement
Conflicting(batch) == \E i, j \in 1..Len(batch) : i < j /\ batch[i].id = batch[j].id

\* the rows after a statement that upserts `batch`
UpsertBatchRows(rows, batch) ==
    [id \in Ids |-> IF id \in RecordIds(batch)
                    THEN batch[LastOf(batch, id)].v ELSE rows[id]]

DedupInit ==
    /\ \E t \in MirrorTables : store = [table |-> t, rows |-> [id \in Ids |-> NULL]]
    /\ run = [pc |-> "start", extracted |-> <<>>, records |-> <<>>, i |-> 1,
              stmts |-> <<>>, status |-> "none", rows_synced |-> 0]

\* run_query returns the rows of the table, chunk after chunk
ExtractRecords ==
    /\ run.pc = "start"
    /\ \E recs \in UNION {[1..n -> Records] : n \in 0..MaxLen} :
         IF recs = <<>>
         THEN run' = [run EXCEPT !.pc = "done", !.status = "success"]
         ELSE run' = [run EXCEPT !.pc = "extracted", !.extracted = recs]
    /\ UNCHANGED store

\* the records are built from the rows
PrepareRecords ==
    /\ run.pc = "extracted"
    /\ run' = [run EXCEPT !.pc = "write",
                          !.records = Deduplicate(store.table, run.extracted)]
    /\ UNCHANGED store

\* db.execute(stmt) for the next batch; a failing statement ends the table
\* sync with an error
UpsertBatch ==
    /\ run.pc = "write"
    /\ run.i <= Len(run.records)
    /\ LET last == IF run.i + batch_size - 1 < Len(run.records)
                   THEN run.i + batch_size - 1 ELSE Len(run.records)
           batch == SubSeq(run.records, run.i, last)
           sent == [run EXCEPT !.stmts = Append(@, batch)]
       IN IF Conflicting(batch)
          THEN /\ run' = [sent EXCEPT !.pc = "done", !.status = "error"]
               /\ UNCHANGED store
          ELSE /\ run' = [sent EXCEPT !.i = last + 1]
               /\ store' = [store EXCEPT !.rows = UpsertBatchRows(@, batch)]

\* _complete_sync_log(success, rows_synced = len(records))
CompleteRecords ==
    /\ run.pc = "write"
    /\ run.i > Len(run.records)
    /\ run' = [run EXCEPT !.pc = "done", !.status = "success",
                          !.rows_synced = Len(run.records)]
    /\ UNCHANGED store

DedupNext == ExtractRecords \/ PrepareRecords \/ UpsertBatch \/ CompleteRecords

\* ------------------------------------------------------------------------
\* From the columns of a remote result to the columns of a record
\* ------------------------------------------------------------------------
\* column names a SELECT * may return, in the spelling of the remote source
ColumnPool == {"ID", "Name", "email", "Memo", "lastmodifieddate", "custom1"}

\* c.lower() on the column names of the model
ColLower(c) ==
    IF c = "ID" THEN "id" ELSE IF c = "Name" THEN "name"
    ELSE IF c = "Memo" THEN "memo" ELSE c

\* pg_columns of sync_accounts, sync_employees, sync_customers and
\* sync_transaction_lines, reduced to the columns of the model
pg_columns(t) ==
    IF t = "account" THEN {"id", "name"}
    ELSE IF t = "employee" THEN {"id", "email"}
    ELSE IF t = "customer" THEN {"id", "email", "lastmodifieddate"}
    ELSE {"id", "memo"}

\* the columns the query of sync_transactions selects, the same reduction
\* and the two amount columns
SelectedColumns ==
    {"id", "memo", "lastmodifieddate", "foreignamountpaid", "foreignamountunpaid"}

\* the columns of the mirror tables NSAccount, NSEmployee, NSCustomer,
\* NSTransaction and NSTransactionLine, the same reduction
TableColumns(t) ==
    IF t = "account" THEN {"id", "name", "ns_last_modified", "synced_at"}
    ELSE IF t = "employee" THEN {"id", "email", "synced_at"}
    ELSE IF t = "customer" THEN {"id", "email", "lastmodifieddate", "synced_at"}
    ELSE IF t = "transaction" THEN {"id", "memo", "lastmodifieddate", "synced_at"}
    ELSE {"id", "memo", "synced_at"}

\* the keys of the record a table sync builds from a row
RecordColumns(t, columns) ==
    LET col_lower == {ColLower(c) : c \in columns}
    IN IF t = "transaction" THEN col_lower
       ELSE IF t = "account"
       THEN (col_lower \cap pg_columns(t))
            \cup (IF "lastmodifieddate" \in col_lower THEN {"ns_last_modified"} ELSE {})
       ELSE col_lower \cap pg_columns(t)

ProjectInit ==
    /\ \E t \in MirrorTables : store = [table |-> t]
    /\ run = [pc |-> "start", columns |-> {}, record |-> {}, status |-> "none"]

\* run_query returns rows under the columns the remote source has
ReturnColumns ==
    /\ run.pc = "start"
    /\ \E columns \in (IF store.table = "transaction" THEN {SelectedColumns}
                        ELSE SUBSET ColumnPool) :
         run' = [run EXCEPT !.pc = "columns", !.columns = columns]
    /\ UNCHANGED store

\* the records are built; a result without id is refused
BuildRecord ==
    /\ run.pc = "columns"
    /\ LET record == RecordColumns(store.table, run.columns)
       IN IF "id" \notin record
          THEN run' = [run EXCEPT !.pc = "done", !.status = "error"]
          ELSE run' = [run EXCEPT !.pc = "built", !.record = record]
    /\ UNCHANGED store

ProjectNext == ReturnColumns \/ BuildRecord

\* ------------------------------------------------------------------------
\* Mirror query path: validation, translation, execution
\*
\* A statement is a sequence of tokens; its text is the tokens joined by
\* single spaces.  A token is a word (letters, digits, underscores), a
\* punctuation mark or a quoted literal.  A mark spelled with a leading ~
\* is written directly after the token before it, without whitespace.
\* ------------------------------------------------------------------------
\* the spellings of the words of the model: <<lower, upper, spellings>>
Spellings ==
    {<<"select", "SELECT", {"select", "SELECT"}>>,
     <<"with", "WITH", {"with", "WITH"}>>,
     <<"from", "FROM", {"from", "FROM"}>>,
     <<"join", "JOIN", {"join", "JOIN"}>>,
     <<"as", "AS", {"AS"}>>,
     <<"where", "WHERE", {"WHERE"}>>,
     <<"top", "TOP", {"TOP"}>>,
     <<"limit", "LIMIT", {"LIMIT"}>>,
     <<"table", "TABLE", {"TABLE"}>>,
     <<"returning", "RETURNING", {"RETURNING"}>>,
     <<"drop", "DROP", {"drop", "DROP"}>>,
     <<"delete", "DELETE", {"delete", "DELETE"}>>,
     <<"x", "X", {"x"}>>,
     <<"id", "ID", {"id"}>>,
     <<"tranid", "TRANID", {"tranid"}>>,
     <<"trandate", "TRANDATE", {"trandate"}>>,
     <<"create_date", "CREATE_DATE", {"create_date"}>>,
     <<"unknown_table", "UNKNOWN_TABLE", {"unknown_table"}>>,
     <<"pg_user", "PG_USER", {"pg_user"}>>,
     <<"account", "ACCOUNT", {"account", "Account"}>>,
     <<"transaction", "TRANSACTION", {"transaction"}>>,
     <<"transactionline", "TRANSACTIONLINE", {"transactionline"}>>,
     <<"ns_account", "NS_ACCOUNT", {"ns_account"}>>,
     <<"ns_transaction", "NS_TRANSACTION", {"ns_transaction"}>>,
     <<"ns_transactionline", "NS_TRANSACTIONLINE", {"ns_transactionline"}>>}

\* tokens that are identifiers or keywords: [a-zA-Z_][a-zA-Z0-9_]*
Words == UNION {c[3] : c \in Spellings}

\* tokens that are numbers: \d+
Digits == {"1", "2"}

Spelling(w) == CHOOSE c \in Spellings : w \in c[3]

\* str.upper() and str.lower() of a token
SqlUpper(w) == IF w \in Words THEN Spelling(w)[2] ELSE w
SqlLower(w) == IF w \in Words THEN Spelling(w)[1] ELSE w

UpperSeq(s) == [i \in 1..Len(s) |-> SqlUpper(s[i])]

\* marks written without whitespace before them, and the mark each one is
Glued == {"~)", "~,", "~;"}

Mark(t) ==
    IF t = "~)" THEN ")" ELSE IF t = "~," THEN "," ELSE IF t = "~;" THEN ";" ELSE t

\* token i is followed by whitespace or by the end of the text
SpaceAfter(s, i) == i = Len(s) \/ s[i + 1] \notin Glued

\* ALLOWED_TABLES
ALLOWED_TABLES ==
    {"ns_account", "ns_transaction", "ns_transactionline", "ns_employee", "ns_customer"}

\* TABLE_ALIASES, in the order _rewrite_table_names applies them
TABLE_ALIASES ==
    <<<<"transactionline", "ns_transactionline">>,
      <<"transaction", "ns_transaction">>,
      <<"account", "ns_account">>,
      <<"employee", "ns_employee">>,
      <<"customer", "ns_customer">>>>

\* the set `allowed` of _validate_sql
AllowedNames == ALLOWED_TABLES \cup {TABLE_ALIASES[k][1] : k \in 1..Len(TABLE_ALIASES)}

\* mutant: DROP is not on the list
MUT_dangerous_words_short ==
    <<"TRUNCATE", "ALTER", "CREATE", "GRANT", "REVOKE", "EXEC",
      "EXECUTE", "CALL", "COPY", "LOAD">>

dangerous_words ==
    <<"DROP", "TRUNCATE", "ALTER", "CREATE", "GRANT", "REVOKE", "EXEC",
      "EXECUTE", "CALL", "COPY", "LOAD">>

dml_words == <<"DELETE", "UPDATE", "INSERT", "MERGE">>

\* dangerous_patterns, each as the words it is made of
dangerous_patterns ==
    <<<<"INTO", "OUTFILE">>, <<"INTO", "DUMPFILE">>, <<"LOAD_FILE">>,
      <<"INFORMATION_SCHEMA">>, <<"PG_CATALOG">>, <<"PG_USER">>,
      <<"PG_SHADOW">>, <<";">>>>

Range(f) == {f[k] : k \in DOMAIN f}

\* re.search(rf'\b{keyword}\b', sql_upper)
HasWord(u, keyword) == \E i \in 1..Len(u) : u[i] = keyword

\* `pattern in sql_upper`; no token of the model contains a pattern's word
\* as a proper part
HasPattern(u, pattern) ==
    \E i \in 1..Len(u) :
        /\ i + Len(pattern) - 1 <= Len(u)
        /\ \A j \in 1..Len(pattern) : Mark(u[i + j - 1]) = pattern[j]

\* the first element of a list that satisfies Hit
FirstIn(list, Hit(_)) ==
    list[Min({k \in 1..Len(list) : Hit(list[k])})]

\* sql_upper.startswith("SELECT"), sql_upper.startswith("WITH")
StartsSelect(u) == Len(u) >= 1 /\ u[1] = "SELECT"
StartsWith(u) == Len(u) >= 1 /\ u[1] = "WITH"

\* re.search(r'\)\s*(INSERT|UPDATE|DELETE|MERGE)\s', sql_upper)
CteDml(u) ==
    \E i \in 1..(Len(u) - 2) :
        /\ Mark(u[i]) = ")"
        /\ u[i + 1] \in Range(dml_words)
        /\ SpaceAfter(u, i + 1)

\* \b(?:FROM|JOIN)\s+([a-zA-Z_][a-zA-Z0-9_]*) matches at token i
TableAt(s, i) ==
    /\ i + 1 <= Len(s)
    /\ SqlUpper(s[i]) \in {"FROM", "JOIN"}
    /\ s[i + 1] \in Words

RECURSIVE FindTablesFrom(_, _)
FindTablesFrom(s, i) ==
    IF i >= Len(s) THEN <<>>
    ELSE IF TableAt(s, i) THEN <<s[i + 1]>> \o FindTablesFrom(s, i + 2)
    ELSE FindTablesFrom(s, i + 1)

\* re.findall(table_pattern, sql, re.IGNORECASE)
found_tables(s) == FindTablesFrom(s, 1)

Accepted == [ok |-> TRUE, cause |-> "none", what |-> "none"]
ValueError(cause, what) == [ok |-> FALSE, cause |-> cause, what |-> what]

\* _validate_sql: the checks in their order, the first failing one raises
_validate_sql(s) ==
    LET u == UpperSeq(s)
        words == IF StartsWith(u) THEN dangerous_words ELSE dangerous_words \o dml_words
        BadWord(k) == HasWord(u, k)
        BadPattern(p) == HasPattern(u, p)
        BadTable(t) == SqlLower(t) \notin AllowedNames
        tables == found_tables(s)
    IN IF ~(StartsSelect(u) \/ StartsWith(u))
       THEN ValueError("Only SELECT queries are allowed", "none")
       ELSE IF StartsWith(u) /\ CteDml(u)
       THEN ValueError("Only SELECT queries are allowed (no INSERT/UPDATE/DELETE with CTEs)", "none")
       ELSE IF StartsWith(u) /\ ~HasWord(u, "SELECT")
       THEN ValueError("CTE must contain a SELECT query", "none")
       ELSE IF \E k \in Range(words) : BadWord(k)
       THEN ValueError("Dangerous keyword not allowed", FirstIn(words, BadWord))
       ELSE IF \E p \in Range(dangerous_patterns) : BadPattern(p)
       THEN ValueError("Dangerous pattern not allowed", FirstIn(dangerous_patterns, BadPattern))
       ELSE IF \E t \in Range(tables) : BadTable(t)
       THEN ValueError("Table not allowed", FirstIn(tables, BadTable))
       ELSE Accepted

\* replace_table_name: the pattern (kw\s+)(old_name)(\s|$|\s+[A-Za-z]) has no
\* word boundary before kw and every JOIN variant ends in JOIN
ReplaceAt(s, i, old) ==
    /\ i > 1
    /\ SqlUpper(s[i - 1]) \in {"FROM", "JOIN"}
    /\ SqlLower(s[i]) = old
    /\ SpaceAfter(s, i)

replace_table_name(s, old, new) ==
    [i \in 1..Len(s) |-> IF ReplaceAt(s, i, old) THEN new ELSE s[i]]

RECURSIVE RewriteFrom(_, _)
RewriteFrom(s, k) ==
    IF k > Len(TABLE_ALIASES) THEN s
    ELSE RewriteFrom(replace_table_name(s, TABLE_ALIASES[k][1], TABLE_ALIASES[k][2]), k + 1)

_rewrite_table_names(s) == RewriteFrom(s, 1)

\* SELECT\s+TOP\s+(\d+)\s+ matches at token i
TopAt(s, i) ==
    /\ i + 3 <= Len(s)
    /\ SqlUpper(s[i]) = "SELECT"
    /\ SqlUpper(s[i + 1]) = "TOP"
    /\ s[i + 2] \in Digits
    /\ s[i + 3] \notin Glued

\* re.sub(top_pattern, 'SELECT ', sql)
RECURSIVE RemoveTopFrom(_, _)
RemoveTopFrom(s, i) ==
    IF i > Len(s) THEN <<>>
    ELSE IF TopAt(s, i) THEN <<"SELECT">> \o RemoveTopFrom(s, i + 3)
    ELSE <<s[i]>> \o RemoveTopFrom(s, i + 1)

\* sql.rstrip(';').strip(): the run of semicolons that ends the text
RECURSIVE StripSemicolon(_)
StripSemicolon(s) ==
    IF Len(s) > 0 /\ Mark(s[Len(s)]) = ";"
    THEN IF s[Len(s)] \in Glued
         THEN StripSemicolon(SubSeq(s, 1, Len(s) - 1))
         ELSE SubSeq(s, 1, Len(s) - 1)
    ELSE s

_rewrite_syntax(s) ==
    LET hits == {i \in 1..Len(s) : TopAt(s, i)}
    IN IF hits = {} THEN s
       ELSE StripSemicolon(RemoveTopFrom(s, 1)) \o <<"LIMIT", s[Min(hits) + 2]>>

\* the statements of the spec's examples
SelectExample ==
    <<"SELECT", "id", ",", "tranid", "FROM", "transaction", "WHERE", "trandate",
      ">", "'2024-01-01'">>
CteExample ==
    <<"WITH", "x", "AS", "(", "SELECT", "1", ")", "SELECT", "*", "FROM", "x">>
DropExample == <<"DROP", "TABLE", "x">>
CteDeleteExample ==
    <<"WITH", "x", "AS", "(", "SELECT", "1", ")", ";", "DELETE", "FROM", "transaction">>
UnknownTableExample == <<"SELECT", "*", "FROM", "unknown_table">>
TwoStatementsExample == <<"SELECT", "1", ";", "SELECT", "2">>
TopExample == <<"select", "TOP", "2", "id", "FROM", "Account", "join", "transactionline">>

\* a CTE whose body modifies the mirror, and a subquery closed right after
\* its table name
CteBodyDeleteExample ==
    <<"WITH", "x", "AS", "(", "DELETE", "FROM", "transaction", "RETURNING", "id", ")",
      "SELECT", "1">>
SubqueryExample ==
    <<"SELECT", "id", "FROM", "(", "SELECT", "id", "FROM", "transaction", "~)", "x">>

Examples ==
    {SelectExample, CteExample, DropExample, CteDeleteExample,
     UnknownTableExample, TwoStatementsExample, TopExample,
     CteBodyDeleteExample, SubqueryExample}

\* the tokens of the generated statements
Tokens ==
    {"SELECT", "with", "FROM", "join", "drop", "DELETE", ")", ";", "1",
     "create_date", "Account", "ns_transaction", "unknown_table", "pg_user"}

\* candidate statements: the examples and every token sequence up to MaxLen
Statements == Examples \cup UNION {[1..n -> Tokens] : n \in 0..MaxLen}

NoText == <<"none">>

\* execute_postgres_query is called with a candidate statement
QueryInit ==
    \E sql \in Statements :
        q = [pc |-> "called", sql |-> sql, verdict |-> Accepted,
             rewritten_sql |-> NoText, received |-> <<>>]

\* mutant: the verdict of the validator is not acted upon
MUT_Validate_ignored ==
    /\ q.pc = "called"
    /\ q' = [q EXCEPT !.pc = "validated", !.verdict = _validate_sql(q.sql)]

\* _validate_sql(sql): a ValueError leaves execute_postgres_query
Validate ==
    /\ q.pc = "called"
    /\ LET v == _validate_sql(q.sql)
       IN q' = [q EXCEPT !.pc = IF v.ok THEN "validated" ELSE "rejected",
                         !.verdict = v]

\* rewritten_sql = _rewrite_syntax(_rewrite_table_names(sql))
Rewrite ==
    /\ q.pc = "validated"
    /\ q' = [q EXCEPT !.pc = "rewritten",
                      !.rewritten_sql = _rewrite_syntax(_rewrite_table_names(q.sql))]

\* db.execute(text(rewritten_sql)): the store receives the text and answers
\* with rows or with an error
Execute ==
    /\ q.pc = "rewritten"
    /\ \E outcome \in {"returned", "failed"} :
         q' = [q EXCEPT !.pc = outcome, !.received = Append(@, q.rewritten_sql)]

QueryNext == Validate \/ Rewrite \/ Execute

\* ------------------------------------------------------------------------
\* The translation on its own: _rewrite_table_names, then _rewrite_syntax,
\* applied to a text and again to its own result
\* ------------------------------------------------------------------------
translate(s) == _rewrite_syntax(_rewrite_table_names(s))

TopSemicolonExample == <<"SELECT", "TOP", "2", "id", "FROM", "account", "~;">>

\* what follows the row-limit clause of a generated statement
BodyTokens ==
    {"TOP", "1", "id", "FROM", "account", "transaction", "transactionline", "~;"}

\* statements with canonical table names and a leading row-limit clause
TopStatements ==
    {TopExample, TopSemicolonExample}
    \cup {<<sel, "TOP", n>> \o body :
            sel \in {"SELECT", "select"}, n \in Digits,
            body \in UNION {[1..k -> BodyTokens] : k \in 1..(MaxLen + 1)}}

TranslateInit ==
    \E sql \in TopStatements :
        q = [pc |-> "input", sql |-> sql, once |-> NoText, twice |-> NoText]

\* translate(sql)
TranslateOnce ==
    /\ q.pc = "input"
    /\ q' = [q EXCEPT !.pc = "once", !.once = translate(q.sql)]

\* translate(translate(sql))
TranslateTwice ==
    /\ q.pc = "once"
    /\ q' = [q EXCEPT !.pc = "twice", !.twice = translate(q.once)]

TranslateNext == TranslateOnce \/ TranslateTwice

\* ------------------------------------------------------------------------
\* Properties of the schema cache
\* ------------------------------------------------------------------------
DiscoverDone == call.op = "discover" /\ call.pc = "done"
DiscoverReturned == DiscoverDone /\ call.outcome = "returned"
PreEntry == call.pre[call.conn]
Entry == cache[call.conn]

\* C1: an unforced discover that fetches while the existing entry is expired
\* starts fresh: the entry written holds exactly the tables discovered by
\* this call, nothing of the expired entry is carried over.
CX_C1_ExpiredStartsFresh ==
    (/\ DiscoverReturned /\ ~call.force /\ call.wrote
     /\ PreEntry.present /\ ~call.preValid)
    => Entry.tables = call.tables

\* C2: an unforced discover(filter=B) that directly follows an unforced
\* discover(filter=A), B disjoint from A, leaves a cached view that holds the
\* tables discovered by both calls (new ones overwriting same-named ones), and
\* none of its remote queries names a table of the valid entry.
CX_C2_MergeWithoutRequery ==
    (/\ DiscoverReturned /\ call.after.is
     /\ (Entry.present => _is_cache_valid(Entry, now)))
    => /\ (call.after.disc \cup DOMAIN call.tables) \subseteq DOMAIN Entry.tables
       /\ \A n \in DOMAIN call.tables : Entry.tables[n] = call.tables[n]
       /\ ~call.requeried

\* C3: when discover returns a table map, a getCached issued right after it
\* returns a map with the same table set.
CX_C3_DiscoverThenGetCached ==
    (DiscoverReturned /\ ~call.ticked)
    => DOMAIN get_cached_schema(call.conn, now).tables = DOMAIN call.result.tables

\* C4: getCached(c) returns the tables of c's entry exactly when the entry
\* exists and now - fetchedAt < TTL, and absent otherwise; it issues no
\* remote query and changes no cache entry.
C4_GetCachedValidity ==
    call.op = "get" =>
        /\ call.result =
              IF PreEntry.present /\ call.at - PreEntry.fetched_at < SCHEMA_CACHE_TTL
              THEN [present |-> TRUE, tables |-> PreEntry.tables]
              ELSE [present |-> FALSE, tables |-> EmptyMap]
        /\ cache = call.pre
        /\ call.nq = 0

\* getCached answers absent for an entry whose TTL has elapsed
W_C4_ExpiredAbsent ==
    /\ call.op = "get"
    /\ PreEntry.present
    /\ ~call.result.present

\* the case of step (1): not forced, entry valid, no filter or every filtered
\* name present in the entry (names compared without regard to case)
HitCase ==
    /\ ~call.force
    /\ call.preValid
    /\ \/ call.filter = {}
       \/ \A n \in call.filter :
             \E m \in DOMAIN PreEntry.tables : Lower(m) = Lower(n)

\* the case of step (1) with the names taken as they are spelled
ExactHitCase ==
    /\ ~call.force
    /\ call.preValid
    /\ call.filter \subseteq DOMAIN PreEntry.tables

C6_EmptyDiscoveryNoWrite ==
    /\ (DiscoverReturned /\ call.nq >= 1 /\ call.tables = EmptyMap) => cache = call.pre
    /\ \A c \in Conns : \A n \in DOMAIN cache[c].tables : cache[c].tables[n] > 0

\* a forced discovery over an existing entry whose tables all came back
\* without columns
W_C6_ForcedEmpty ==
    /\ DiscoverReturned
    /\ call.force
    /\ call.nq >= 2
    /\ call.tables = EmptyMap
    /\ PreEntry.present

\* C7 as stated: if the gateway raised during discover, the cache is as it
\* was before the call.
CX_C7_AnyRemoteErrorNoWrite ==
    (DiscoverDone /\ call.raised) => cache = call.pre

\* C7 amended: if the remote-access error surfaces to the caller of
\* discover, the cache (every connection's entry) is as it was before the
\* call.
C7_AbortLeavesCache ==
    (DiscoverDone /\ call.outcome = "raised") => cache = call.pre

\* the column query fails and the error surfaces while both connections
\* have an entry
W_C7_AbortWithEntries ==
    /\ DiscoverDone
    /\ call.outcome = "raised"
    /\ call.nq = 2
    /\ \A c \in Conns : call.pre[c].present

\* C8: a forced refresh that discovered something replaces the entry: its
\* tables are exactly the discovered ones, fetchedAt is the time of the write.
C8_ForcedReplaces ==
    (DiscoverReturned /\ call.force /\ call.tables # EmptyMap)
    => /\ Entry.present
       /\ Entry.tables = call.tables
       /\ Entry.fetched_at = call.at

\* a forced refresh that does not rediscover a table of the previous entry
W_C8_ForcedDropsTable ==
    /\ DiscoverReturned
    /\ call.force
    /\ call.tables # EmptyMap
    /\ PreEntry.present
    /\ ~(DOMAIN PreEntry.tables \subseteq DOMAIN call.tables)

\* ------------------------------------------------------------------------
\* Properties of the mirror sync engine
\* ------------------------------------------------------------------------
\* log entries created by the request, in creation order
OwnLog == SubSeq(db.log, req.base + 1, Len(db.log))

C10_SequentialOrder ==
    req.mode = "all" =>
        /\ Len(OwnLog) <= 5
        /\ \A k \in 1..Len(OwnLog) :
              OwnLog[k].table =
                 <<"account", "employee", "customer", "transaction", "transactionline">>[k]
        /\ \A k \in 1..(Len(OwnLog) - 1) : OwnLog[k].status \in {"success", "failed"}
        /\ \A k \in 1..Len(OwnLog) :
              OwnLog[k].table = "transactionline" =>
                 \E j \in 1..(k - 1) : /\ OwnLog[j].table = "transaction"
                                       /\ OwnLog[j].status \in {"success", "failed"}

\* the transactionline sync is running after the transaction sync failed
W_C10_LinesAfterTransactions ==
    /\ req.mode = "all"
    /\ Len(OwnLog) = 5
    /\ OwnLog[5].status = "running"
    /\ OwnLog[4].status = "failed"

\* sync_all has returned and sync_netsuite_data has answered with its result
SyncAllReturned == req.mode = "all" /\ req.pc = "ended" /\ req.status # "error"

CX_C12_EarlierChunksStand ==
    (req.pc = "ended" /\ req.wfail.is /\ req.wfail.rows # {})
    => /\ req.wfail.rows \subseteq dbc.mirror[req.wfail.table]
       /\ Len(dbc.log) >= req.wfail.log
       /\ dbc.log[req.wfail.log].table = req.wfail.table
       /\ dbc.log[req.wfail.log].status = "failed"

\* a remote query of the current table sync raises and the sync returns
RemoteFailureStep ==
    /\ req.pc \in {"extract", "lines"}
    /\ req'.pc = "dispatch"
    /\ req'.results[CurTable].status = "error"

\* C13: when the gateway raises during a table sync, that sync's log entry
\* becomes failed with completedAt and the error message set, and neither the
\* committed store nor the mirror rows of the session change; the other log
\* entries stay as they are.
C13_RemoteFailureMarksFailed ==
    [][RemoteFailureStep =>
         /\ Len(db'.log) = Len(db.log)
         /\ db'.log[CurLog] = [table |-> CurTable, status |-> "failed",
                               completed |-> TRUE, rows |-> -1, err |-> TRUE]
         /\ \A k \in 1..(Len(db.log) - 1) : db'.log[k] = db.log[k]
         /\ db'.mirror = db.mirror
         /\ dbc' = dbc]_vars

\* the employee sync failed on its remote query after the account sync had
\* committed its rows
W_C13_FailureAfterCommit ==
    /\ req.mode = "all"
    /\ ~req.wfail.is
    /\ "employee" \in DOMAIN req.results
    /\ req.results["account"].status = "success"
    /\ req.results["employee"].status = "error"
    /\ dbc.mirror["account"] = {1, 2}
    /\ db.log[req.base + 2].status = "failed"

\* ------------------------------------------------------------------------
\* Properties of the mirror tables, row by row
\* ------------------------------------------------------------------------
RunDone == run.pc = "done"

\* the run repeats the previous run, which succeeded, on the same remote data
Rerun ==
    /\ run.prev.any /\ run.prev.ok
    /\ run.prev.P = run.P /\ run.prev.data = run.data
    /\ run.data # EmptyMap

\* after a successful run every remote id has its row with the payload's
\* values, syncedAt later than before the run, and rowsSynced counts the ids
RunSynced ==
    /\ run.rows_synced = Cardinality(DOMAIN run.data)
    /\ \A id \in DOMAIN run.data :
          /\ store.rows[id].present
          /\ \A c \in run.P : store.rows[id].cols[c] = run.data[id][c]
          /\ run.pre[id].present => store.rows[id].synced_at > run.pre[id].synced_at

\* a rerun succeeds and leaves the data columns of the rows as they were
RerunSame ==
    /\ run.status = "success"
    /\ \A id \in DOMAIN run.data : store.rows[id].cols = run.pre[id].cols

RunWritten == run.pc = "written" \/ (RunDone /\ run.status = "success")

\* C15: for a row that existed before the sync, the upsert leaves every
\* column that is not in the sync's projection at its prior value; rows whose
\* id is not in the payload are not touched at all.
C15_AbsentColumnsKept ==
    RunWritten =>
        \A id \in Ids :
            run.pre[id].present =>
                IF id \in DOMAIN run.data
                THEN \A c \in DataCols(store.table) \ run.P :
                        store.rows[id].cols[c] = run.pre[id].cols[c]
                ELSE store.rows[id] = run.pre[id]

\* a row whose type was set by an earlier sync is synced again by a sync
\* that observes only its name, and the name changes
W_C15_NameOnlyResync ==
    /\ store.table = "account"
    /\ RunDone /\ run.status = "success"
    /\ run.P = {"name"}
    /\ 1 \in DOMAIN run.data
    /\ run.pre[1].present
    /\ run.pre[1].cols["type"] # NULL
    /\ run.pre[1].cols["name"] # store.rows[1].cols["name"]

\* C16: sync never deletes mirror rows: the primary keys of the committed
\* table only grow, and the session loses a key only by a rollback to the
\* committed table.
C16_KeysOnlyGrow ==
    [][\A id \in Ids :
          /\ store.committed[id].present => store'.committed[id].present
          /\ (store.rows[id].present /\ ~store'.rows[id].present)
                => store'.rows = store.committed]_vars

\* a committed row whose id the remote no longer returns is still there
\* after the next successful sync
W_C16_GoneUpstreamKept ==
    /\ RunDone /\ run.status = "success"
    /\ run.prev.any /\ 1 \in DOMAIN run.prev.data
    /\ DOMAIN run.data = {2}
    /\ store.committed[1].present
    /\ store.rows[1].present

\* C17: a transactionline sync whose payload refers to a transaction that is
\* not in the mirror transaction table is accepted: the sync succeeds and
\* the lines are written.
CX_C17_DanglingLineAccepted ==
    (/\ store.table = "transactionline"
     /\ RunDone
     /\ \E id \in DOMAIN run.data : run.data[id]["transaction"] \notin store.trans)
    => /\ run.status = "success"
       /\ \A id \in DOMAIN run.data : store.rows[id].present

\* a step that issues a remote query or a mirror write
IoStep == req'.nq > req.nq \/ req'.nw > req.nw

CX_C28_NoRunningLogLeft ==
    req.pc = "ended" =>
        \A k \in (req.base + 1)..Len(dbc.log) :
            /\ dbc.log[k].status \in {"success", "failed"}
            /\ dbc.log[k].completed
            /\ dbc.log[k].status = "success" => dbc.log[k].rows >= 0
            /\ dbc.log[k].status = "failed" => dbc.log[k].err

\* no statement sent to the store names an id twice
StatementsDistinct == \A k \in 1..Len(run.stmts) : ~Conflicting(run.stmts[k])

\* the finished table sync wrote one row per extracted id, with the payload
\* extracted last, and counted the distinct ids
LastPayloadWritten ==
    /\ run.status = "success"
    /\ run.rows_synced = Cardinality(RecordIds(run.extracted))
    /\ \A id \in RecordIds(run.extracted) :
          store.rows[id] = run.extracted[LastOf(run.extracted, id)].v

\* C26 as stated, for every table sync: no upsert statement contains an id
\* twice, and a sync whose extraction returned an id more than once writes
\* one record for it, the later payload, and counts distinct ids.
CX_C26_EveryTableDeduplicates ==
    /\ StatementsDistinct
    /\ run.pc = "done" => LastPayloadWritten

\* C27: for all five tables, the record a sync passes to the upsert has
\* only columns of its destination table.
CX_C27_OnlyDestinationColumns ==
    run.pc = "built" => run.record \subseteq TableColumns(store.table)

\* ------------------------------------------------------------------------
\* Properties of the mirror query path
\* ------------------------------------------------------------------------
Validated == q.pc \notin {"idle", "called"}

\* C18: the validator accepts the plain SELECT over an allow-listed table
\* and the CTE statement whose main SELECT reads from its own CTE name.
CX_C18_ExamplesAccepted ==
    (Validated /\ q.sql \in {SelectExample, CteExample}) => q.verdict.ok

\* the rules of the validator, stated on the statement
BeginsSelectOrWith(s) == Len(s) >= 1 /\ SqlUpper(s[1]) \in {"SELECT", "WITH"}

IsCte(s) == Len(s) >= 1 /\ SqlUpper(s[1]) = "WITH"

CteRule(s) ==
    IsCte(s) =>
        /\ \E i \in 1..Len(s) : SqlUpper(s[i]) = "SELECT"
        /\ ~\E i \in 1..(Len(s) - 2) :
               /\ Mark(s[i]) = ")"
               /\ SqlUpper(s[i + 1]) \in {"INSERT", "UPDATE", "DELETE", "MERGE"}
               /\ s[i + 2] \notin Glued

DenyList(s) ==
    {"DROP", "TRUNCATE", "ALTER", "CREATE", "GRANT", "REVOKE", "EXEC", "EXECUTE",
     "CALL", "COPY", "LOAD"}
    \cup (IF IsCte(s) THEN {} ELSE {"DELETE", "UPDATE", "INSERT", "MERGE"})

NoDenyWord(s) == \A i \in 1..Len(s) : SqlUpper(s[i]) \notin DenyList(s)

NoDangerousText(s) ==
    \A i \in 1..Len(s) :
        /\ Mark(SqlUpper(s[i])) \notin {";", "LOAD_FILE", "INFORMATION_SCHEMA", "PG_CATALOG",
                                   "PG_USER", "PG_SHADOW"}
        /\ ~(/\ SqlUpper(s[i]) = "INTO" /\ i < Len(s)
             /\ SqlUpper(s[i + 1]) \in {"OUTFILE", "DUMPFILE"})

FollowsFromJoin(s, i) ==
    i > 1 /\ SqlUpper(s[i - 1]) \in {"FROM", "JOIN"} /\ s[i] \in Words

TablesAllowed(s) ==
    \A i \in 1..Len(s) :
        FollowsFromJoin(s, i) =>
            SqlLower(s[i]) \in {"ns_account", "ns_transaction", "ns_transactionline",
                                "ns_employee", "ns_customer", "account", "transaction",
                                "transactionline", "employee", "customer"}

\* the error of a rejection names a rule the statement violates
CauseNamed(s, v) ==
    \/ v.cause = "Only SELECT queries are allowed" /\ ~BeginsSelectOrWith(s)
    \/ /\ v.cause \in {"Only SELECT queries are allowed (no INSERT/UPDATE/DELETE with CTEs)",
                        "CTE must contain a SELECT query"}
       /\ ~CteRule(s)
    \/ /\ v.cause = "Dangerous keyword not allowed"
       /\ v.what \in DenyList(s)
       /\ \E i \in 1..Len(s) : SqlUpper(s[i]) = v.what
    \/ v.cause = "Dangerous pattern not allowed" /\ ~NoDangerousText(s)
    \/ /\ v.cause = "Table not allowed"
       /\ \E i \in 1..Len(s) : FollowsFromJoin(s, i) /\ s[i] = v.what
       /\ ~TablesAllowed(s)

\* C19: a statement the validator accepts begins with SELECT or WITH, has no
\* deny-listed word, no ';' or other dangerous text, and only allow-listed
\* tables after FROM and JOIN; every statement that breaks a rule is
\* rejected with an error naming a rule it breaks, as the three examples are.
C19_AcceptedObeysRules ==
    Validated =>
        /\ q.verdict.ok <=>
              /\ BeginsSelectOrWith(q.sql) /\ CteRule(q.sql)
              /\ NoDenyWord(q.sql) /\ NoDangerousText(q.sql) /\ TablesAllowed(q.sql)
        /\ ~q.verdict.ok => CauseNamed(q.sql, q.verdict)
        /\ q.sql = DropExample => ~q.verdict.ok
        /\ q.sql = UnknownTableExample =>
              q.verdict = ValueError("Table not allowed", "unknown_table")
        /\ q.sql = TwoStatementsExample =>
              q.verdict = ValueError("Dangerous pattern not allowed", <<";">>)

\* an accepted statement that joins two allow-listed tables, one under each
\* naming convention
W_C19_AcceptedJoin ==
    /\ q.pc = "validated"
    /\ q.verdict.ok
    /\ Len(found_tables(q.sql)) = 2

\* C20: the mirror store receives nothing for a rejected statement, which
\* is not translated either; what the store receives is the translation of
\* a statement that passed validation.
C20_ValidationFirst ==
    /\ q.received # <<>> =>
          /\ _validate_sql(q.sql).ok
          /\ q.received = <<_rewrite_syntax(_rewrite_table_names(q.sql))>>
    /\ (q.pc # "idle" /\ ~_validate_sql(q.sql).ok) =>
          /\ q.pc \in {"called", "rejected"}
          /\ q.rewritten_sql = NoText
          /\ q.received = <<>>

\* the statement that hides a DELETE behind a CTE is rejected and nothing
\* has reached the store
W_C20_RejectedNothingSent ==
    /\ q.pc = "rejected"
    /\ q.sql = CteDeleteExample
    /\ q.received = <<>>

\* a data-modifying word where a statement begins: at the start of the
\* text, or right after a parenthesis opens or closes
StatementVerb(s, i) ==
    /\ SqlUpper(s[i]) \in {"INSERT", "UPDATE", "DELETE", "MERGE"}
    /\ i = 1 \/ Mark(s[i - 1]) \in {"(", ")"}

\* C21: no statement the validator accepts has INSERT, UPDATE, DELETE or
\* MERGE as a statement verb, at top level after a CTE block or inside a
\* CTE body.
CX_C21_NoDmlVerb ==
    (Validated /\ q.verdict.ok) =>
        \A i \in 1..Len(q.sql) : ~StatementVerb(q.sql, i)

\* C22: translating an already translated text returns it unchanged, for
\* every input with canonical table names and a leading row-limit clause.
CX_C22_TranslateIdempotent ==
    (q.pc = "twice" /\ q.sql \in TopStatements) => q.twice = q.once

\* C24: discover never returns normally after a remote query of the table
\* listing or of a per-table column fetch has failed; only the failure of
\* the batched column query is absorbed, by the per-table fallback.
CX_C24_FailedFetchSurfaces ==
    (DiscoverDone /\ call.swallowed) => call.outcome = "raised"

\* the time the metadata of a table was read from the remote source
FetchedAt(columns) == columns - 1

\* getCached or a cache hit of discover has just answered with tables
Served ==
    /\ call.pc = "done" /\ call.outcome = "returned" /\ ~call.ticked
    /\ call.op = "get" \/ (call.op = "discover" /\ call.nq = 0)
    /\ call.result.present

\* C29: every table that getCached returns or that a cache hit of discover
\* serves was itself fetched from the remote source less than the TTL ago.
CX_C29_ServedTablesFresh ==
    Served =>
        \A n \in DOMAIN call.result.tables :
            now - FetchedAt(call.result.tables[n]) < SCHEMA_CACHE_TTL

\* ------------------------------------------------------------------------
\* Properties of concurrent discovery
\* ------------------------------------------------------------------------
BothDone == \A p \in Procs : Proc(p).pc = "done"

BothMissed == \A p \in Procs : Proc(p).missed

\* the tables the calls built from what the remote source returned
Discovered == UNION {DOMAIN Proc(p).tables : p \in Procs}

MergedAll ==
    (BothDone /\ BothMissed) =>
        DOMAIN cache[RaceConn].tables = (DOMAIN call.prior.tables) \cup Discovered

\* C23: two concurrent unforced discover calls on one connection that both
\* miss always both complete, and the entry then holds the tables of the
\* prior entry and every table either call discovered, whichever call
\* wrote first.
C23_ConcurrentMergesKept == []MergedAll /\ <>BothDone

\* both calls missed a valid prior entry, each discovered a table the other
\* did not, and both have returned
W_C23_BothMerged ==
    /\ BothDone /\ BothMissed
    /\ _is_cache_valid(call.prior, now) /\ call.prior.tables # EmptyMap
    /\ \A p \in Procs : Proc(p).outcome = "returned"
    /\ \E n \in DOMAIN Proc(1).tables : n \notin DOMAIN Proc(2).tables
    /\ \E n \in DOMAIN Proc(2).tables : n \notin DOMAIN Proc(1).tables
    /\ \E n \in DOMAIN call.prior.tables : n \notin Discovered

\* C30: in the text the mirror store receives, no canonical table name
\* follows FROM or JOIN: each one has been rewritten to its mirror name,
\* whatever comes after it.
CX_C30_CanonicalNamesRewritten ==
    \A k \in 1..Len(q.received) :
        \A i \in 1..Len(q.received[k]) :
            FollowsFromJoin(q.received[k], i) =>
                SqlLower(q.received[k][i]) \notin
                    {"account", "employee", "customer", "transaction", "transactionline"}

\* ------------------------------------------------------------------------
\* Specifications
\* ------------------------------------------------------------------------
\* the schema cache alone, no sync request running
QueryIdle ==
    q = [pc |-> "idle", sql |-> <<>>, verdict |-> Accepted,
         rewritten_sql |-> NoText, received |-> <<>>]

RowIdle == store = [table |-> "account", rows |-> NoRows("account"),
                    committed |-> NoRows("account"), trans |-> {},
                    clock |-> 0, txn |-> 0] /\ run = NoRun

InitCache ==
    CacheInit /\ db = EmptyDb /\ dbc = EmptyDb /\ req = NoReq /\ RowIdle /\ QueryIdle

SpecCache == InitCache /\ [][CacheNext /\ UNCHANGED <<syncVars, rowVars, q>>]_vars

\* one sync request alone, the schema cache untouched
InitSync == CacheInit /\ SyncInit /\ RowIdle /\ QueryIdle

SpecSync == InitSync /\ [][SyncNext /\ UNCHANGED <<cacheVars, rowVars, q>>]_vars

\* table syncs of one mirror table, row by row
InitMirror ==
    CacheInit /\ db = EmptyDb /\ dbc = EmptyDb /\ req = NoReq /\ RowInit /\ QueryIdle

SpecMirror == InitMirror /\ [][RowNext /\ UNCHANGED <<cacheVars, syncVars, q>>]_vars

\* one call of execute_postgres_query
InitQuery ==
    CacheInit /\ db = EmptyDb /\ dbc = EmptyDb /\ req = NoReq /\ RowIdle /\ QueryInit

SpecQuery ==
    InitQuery /\ [][QueryNext /\ UNCHANGED <<cacheVars, syncVars, rowVars>>]_vars

\* two threads in discover_schema; a thread that can take a step takes it
InitRace ==
    RaceInit /\ db = EmptyDb /\ dbc = EmptyDb /\ req = NoReq /\ RowIdle /\ QueryIdle

SpecRace ==
    /\ InitRace
    /\ [][RaceNext /\ UNCHANGED <<syncVars, rowVars, q>>]_vars
    /\ \A p \in Procs : WF_vars(RaceStep(p) /\ UNCHANGED <<syncVars, rowVars, q>>)

\* one table sync from its extracted rows to its upsert statements
InitDedup ==
    /\ CacheInit /\ db = EmptyDb /\ dbc = EmptyDb /\ req = NoReq /\ QueryIdle
    /\ DedupInit

SpecDedup == InitDedup /\ [][DedupNext /\ UNCHANGED <<cacheVars, syncVars, q>>]_vars

\* one table sync from the columns of its result to its records
InitProject ==
    /\ CacheInit /\ db = EmptyDb /\ dbc = EmptyDb /\ req = NoReq /\ QueryIdle
    /\ ProjectInit

SpecProject == InitProject /\ [][ProjectNext /\ UNCHANGED <<cacheVars, syncVars, q>>]_vars

\* the translation applied twice to one text
InitTranslate ==
    CacheInit /\ db = EmptyDb /\ dbc = EmptyDb /\ req = NoReq /\ RowIdle /\ TranslateInit

SpecTranslate ==
    InitTranslate /\ [][TranslateNext /\ UNCHANGED <<cacheVars, syncVars, rowVars>>]_vars
====
